---- MODULE Spec2Model ----
(***************************************************************************)
(* FoodIQ backend (src/app.py): Flask request handlers over one SQLite     *)
(* file.  Every handler runs in its own request thread (Reqs), opens its   *)
(* own connection with get_db(), executes statements, commits and closes.  *)
(*                                                                         *)
(* SQLite is modelled as the code uses it (rollback-journal mode, the      *)
(* sqlite3 module's implicit transactions):                                *)
(*   - an INSERT/UPDATE statement opens a transaction and takes the        *)
(*     database write lock (writer); it waits while another connection     *)
(*     holds it;                                                           *)
(*   - the statement's effect is private to the connection until           *)
(*     conn.commit() publishes it and frees the lock; where nothing but    *)
(*     the commit follows the statement, the two are one step;             *)
(*   - a SELECT reads the committed tables;                                *)
(*   - a connection that is never closed stays open, and keeps the lock of *)
(*     its unfinished transaction, until the interpreter's collector       *)
(*     finalizes it (Finalize).                                            *)
(* SQL NULL / Python None is the empty tuple, a value v is <<v>>.          *)
(***************************************************************************)
EXTENDS Integers, Sequences, FiniteSets, TLC

VARIABLES
    pc,          \* pc[r]: position of request thread r in its handler
    req,         \* req[r]: the handler's locals (request data, token, rowcount, ...)
    resp,        \* resp[r]: status and message of the response to r's last request
    handles,     \* handles[r]: open connections held by r's running handler
    orphans,     \* connections left open by handlers that have returned
    writer,      \* holder of the SQLite write lock: 0 free, r in Reqs, or Orphan
    users,       \* table users, in id order
    lastIssued,  \* per email, the token in the body of the last 201/200 auth response
    broadcasts,  \* table surplus_broadcasts, in id order
    orders,      \* table orders, in id order
    production,  \* table daily_production, in id order
    report,      \* body of the last statistics response
    tally,       \* per broadcast: claim calls under way while it was active
                 \* that have run their UPDATE, and those answered 200 and 400
    now          \* the wall clock, in ticks

vars == <<pc, req, resp, handles, orphans, writer, users, lastIssued,
          broadcasts, orders, production, report, tally, now>>

----------------------------------------------------------------------------
(* Bounds *)

NumReqs == 2          \* concurrent request threads
MaxOrphans == 1       \* unclosed connections awaiting the collector
MaxBroadcasts == 2    \* rows of surplus_broadcasts
NumClaimants == 2     \* callers of the claim route
NumEmails == 1
NumTokens == 2        \* token values in circulation
MaxTime == 3          \* last clock tick
TicksPerSecond == 2   \* clock resolution
MaxRows == 2          \* rows of daily_production logged in a run
MaxQty == 1           \* largest quantity logged in a run
NumItems == 11        \* dishes in the histories given to wastageByItem

Reqs == 1..NumReqs
Orphan == 0 - 1

NULL == <<>>
Val(v) == <<v>>

NoResp == [status |-> 0]
Idle == [op |-> "none"]

Free(r) == pc[r] \in {"idle", "done"}

----------------------------------------------------------------------------
(* Shared pieces of every handler *)

\* A thread takes its next request.
BeginRequest(r) == Free(r)

\* get_db(): sqlite3.connect
get_db(r) == handles' = [handles EXCEPT ![r] = 1]

\* conn.close()
conn_close(r) == handles' = [handles EXCEPT ![r] = 0]

\* A handler returns without conn.close(): its frame and locals go away and
\* the connection becomes unreachable garbage, still open.
conn_leak(r) ==
    /\ orphans < MaxOrphans
    /\ orphans' = orphans + handles[r]
    /\ handles' = [handles EXCEPT ![r] = 0]

\* The write lock a DML statement needs before it runs.
CanWrite(r) == writer = 0 \/ writer = r

\* The collector finalizes the unreachable connections.  Finalizing rolls
\* back an unfinished transaction, which frees the write lock.
Finalize ==
    /\ orphans > 0
    /\ orphans' = 0
    /\ writer' = IF writer = Orphan THEN 0 ELSE writer
    /\ UNCHANGED <<pc, req, resp, handles, users, lastIssued, broadcasts,
                   orders, production, report, tally, now>>

InitRequests ==
    /\ pc = [r \in Reqs |-> "idle"]
    /\ req = [r \in Reqs |-> Idle]
    /\ resp = [r \in Reqs |-> NoResp]
    /\ handles = [r \in Reqs |-> 0]
    /\ orphans = 0
    /\ writer = 0
    /\ users = <<>>
    /\ lastIssued = [e \in 1..NumEmails |-> NULL]
    /\ broadcasts = <<>>
    /\ orders = <<>>
    /\ report = NULL
    /\ tally = [id \in 1..MaxBroadcasts |-> [arrived |-> 0, won |-> 0, lost |-> 0]]
    /\ now = 0

\* The state once init_db() has created the (empty) tables.
Init == InitRequests /\ production = <<>>

----------------------------------------------------------------------------
(* Surplus broadcasts: broadcast_surplus, claim_surplus *)

InFlight(op) == Cardinality({r \in Reqs : ~Free(r) /\ req[r].op = op})

IsActive(id) == id \in DOMAIN broadcasts /\ broadcasts[id].status = "active"

\* POST /api/surplus/broadcast: request parsed, connection opened.
BroadcastBegin(r) ==
    /\ BeginRequest(r)
    /\ Len(broadcasts) + InFlight("broadcast") < MaxBroadcasts
    /\ get_db(r)
    /\ req' = [req EXCEPT ![r] = [op |-> "broadcast", lastrowid |-> 0]]
    /\ resp' = [resp EXCEPT ![r] = NoResp]
    /\ pc' = [pc EXCEPT ![r] = "broadcast_insert"]
    /\ UNCHANGED <<orphans, writer, users, lastIssued, broadcasts, orders,
                   production, report, tally, now>>

\* INSERT INTO surplus_broadcasts (item_name, category, quantity, pickup_window):
\* status and claimed_by are not supplied, so the row takes the schema
\* defaults, status 'active' and claimed_by NULL.
NewBroadcast(id) == [id |-> id, status |-> "active", claimed_by |-> NULL]

BroadcastInsert(r) ==
    /\ pc[r] = "broadcast_insert"
    /\ CanWrite(r)
    /\ writer' = r
    /\ req' = [req EXCEPT ![r].lastrowid = Len(broadcasts) + 1]
    /\ pc' = [pc EXCEPT ![r] = "broadcast_commit"]
    /\ UNCHANGED <<resp, handles, orphans, users, lastIssued, broadcasts,
                   orders, production, report, tally, now>>

\* conn.commit(); broadcast_id = c.lastrowid; conn.close(); 201.
BroadcastCommit(r) ==
    /\ pc[r] = "broadcast_commit"
    /\ broadcasts' = Append(broadcasts, NewBroadcast(req[r].lastrowid))
    /\ writer' = 0
    /\ conn_close(r)
    /\ resp' = [resp EXCEPT ![r] = [status |-> 201, id |-> req[r].lastrowid]]
    /\ pc' = [pc EXCEPT ![r] = "done"]
    /\ UNCHANGED <<req, orphans, users, lastIssued, orders, production, report, tally, now>>

\* The claim route takes the broadcast id from the URL and nothing else:
\* a call carries no caller identity to the handler.
Anonymous == NULL

StatusOf(id) ==
    IF id \in DOMAIN broadcasts THEN broadcasts[id].status ELSE "missing"

\* POST /api/surplus/<id>/claim.  Three locals are history, like tally, and
\* read by no handler: claimant, the caller (Anonymous or <<user id>>);
\* seen, the broadcast's status when the call arrived; competes, whether
\* the broadcast was active at some moment while the call was waiting to
\* run its UPDATE.
ClaimBegin(r, id, claimant) ==
    /\ BeginRequest(r)
    /\ get_db(r)
    /\ req' = [req EXCEPT ![r] = [op |-> "claim", id |-> id,
                                  claimant |-> claimant,
                                  seen |-> StatusOf(id),
                                  competes |-> FALSE,
                                  rowcount |-> 0]]
    /\ resp' = [resp EXCEPT ![r] = NoResp]
    /\ pc' = [pc EXCEPT ![r] = "claim_update"]
    /\ UNCHANGED <<orphans, writer, users, lastIssued, broadcasts, orders,
                   production, report, tally, now>>

\* The row an UPDATE ... SET status = 'claimed', claimed_by = 1 leaves.
ClaimedRow(row, claimant) == [row EXCEPT !.status = "claimed", !.claimed_by = Val(1)]

\* c.execute of the UPDATE, which matches `rowcount` rows.
ClaimStatement(r, rowcount) ==
    /\ pc[r] = "claim_update"
    /\ CanWrite(r)
    /\ writer' = r
    /\ LET competes == req[r].seen # "claimed" /\ req[r].id \in DOMAIN broadcasts
       IN /\ req' = [req EXCEPT ![r].rowcount = rowcount, ![r].competes = competes]
          /\ tally' = IF competes
                      THEN [tally EXCEPT ![req[r].id].arrived = @ + 1]
                      ELSE tally
    /\ pc' = [pc EXCEPT ![r] = "claim_commit"]
    /\ UNCHANGED <<resp, handles, orphans, users, lastIssued, broadcasts,
                   orders, production, report, now>>

\* Mutant: check-then-act, the status test made when the call arrives
\* instead of inside the UPDATE.
ClaimUpdate_CheckThenAct(r) ==
    ClaimStatement(r, IF req[r].seen = "active" THEN 1 ELSE 0)

\* Mutant: the UPDATE without AND status = 'active'.
ClaimUpdate_AnyStatus(r) ==
    ClaimStatement(r, IF req[r].id \in DOMAIN broadcasts THEN 1 ELSE 0)

\* UPDATE surplus_broadcasts SET ... WHERE id = ? AND status = 'active':
\* one statement; rowcount is the number of rows that matched.
ClaimUpdate(r) == ClaimStatement(r, IF IsActive(req[r].id) THEN 1 ELSE 0)

\* conn.commit(); if c.rowcount == 0: close, 400; else: close, 200.
ClaimCommit(r) ==
    /\ pc[r] = "claim_commit"
    /\ broadcasts' = IF req[r].rowcount = 1
                     THEN [broadcasts EXCEPT ![req[r].id] =
                              ClaimedRow(@, req[r].claimant)]
                     ELSE broadcasts
    /\ writer' = 0
    /\ conn_close(r)
    /\ resp' = [resp EXCEPT ![r] =
                  IF req[r].rowcount = 0
                  THEN [status |-> 400, error |-> "Broadcast not available"]
                  ELSE [status |-> 200, message |-> "Surplus claimed successfully"]]
    /\ pc' = [pc EXCEPT ![r] = "done"]
    /\ tally' = IF ~req[r].competes THEN tally
                ELSE IF req[r].rowcount = 0
                     THEN [tally EXCEPT ![req[r].id].lost = @ + 1]
                     ELSE [tally EXCEPT ![req[r].id].won = @ + 1]
    /\ UNCHANGED <<req, orphans, users, lastIssued, orders, production,
                   report, now>>

NextSurplus ==
    \/ \E r \in Reqs : BroadcastBegin(r)
    \/ \E r \in Reqs : BroadcastInsert(r)
    \/ \E r \in Reqs : BroadcastCommit(r)
    \/ \E r \in Reqs, id \in 1..MaxBroadcasts : ClaimBegin(r, id, Anonymous)
    \/ \E r \in Reqs : ClaimUpdate(r)
    \/ \E r \in Reqs : ClaimCommit(r)

\* The surplus component as the HTTP routes expose it.
SpecSurplus == Init /\ [][NextSurplus]_vars

\* The same component, with the identity of each claim's caller recorded.
NextClaimants ==
    \/ \E r \in Reqs : BroadcastBegin(r)
    \/ \E r \in Reqs : BroadcastInsert(r)
    \/ \E r \in Reqs : BroadcastCommit(r)
    \/ \E r \in Reqs, id \in 1..MaxBroadcasts, u \in 1..NumClaimants :
          ClaimBegin(r, id, Val(u))
    \/ \E r \in Reqs : ClaimUpdate(r)
    \/ \E r \in Reqs : ClaimCommit(r)

SpecClaimants == Init /\ [][NextClaimants]_vars

----------------------------------------------------------------------------
(* Authentication: register, login *)

Emails == 1..NumEmails
Tokens == 1..NumTokens
Passwords == {"pw1", "pw2"}
\* role: 'canteen' is also the default of data.get('role', 'canteen');
\* 'admin' stands for any value outside the table's CHECK(role IN ...).
Roles == {"canteen"}
ValidRoles == {"canteen", "ngo"}
Names == {"Asha"}

\* hash_password: the SHA-256 hex digest, a fixed function of the password.
hash_password(password) == <<"sha256", password>>

\* secrets.token_hex(16): 128 random bits in hex.  A draw is taken to differ
\* from every token stored at that moment (a repeat has probability 2^-128);
\* a value that is no longer stored anywhere may be drawn again.
TokenDraws == {t \in Tokens : \A i \in DOMAIN users : users[i].token # t}

\* Python truthiness of a request field: None (and '') is falsy.
Truthy(x) == x # NULL

UserByEmail(email) == {i \in DOMAIN users : users[i].email = email}

\* The request bodies tried on register: every complete body, and one body
\* for each required field left out.
RegisterBodies ==
    [email : {Val(e) : e \in Emails}, password : {Val(p) : p \in Passwords},
     role : Roles, name : {Val(n) : n \in Names}]
    \cup {[email |-> NULL, password |-> Val("pw1"), role |-> "canteen",
           name |-> Val("Asha")],
          [email |-> Val(1), password |-> NULL, role |-> "canteen",
           name |-> Val("Asha")],
          [email |-> Val(1), password |-> Val("pw1"), role |-> "canteen",
           name |-> NULL]}

\* POST /api/auth/register, up to the try block: 400 when a required field
\* is missing, else the connection is opened.
RegisterBegin(r, data) ==
    /\ BeginRequest(r)
    /\ IF ~(Truthy(data.email) /\ Truthy(data.password) /\ Truthy(data.name))
       THEN /\ req' = [req EXCEPT ![r] = Idle]
            /\ resp' = [resp EXCEPT ![r] =
                          [status |-> 400, error |-> "Missing required fields"]]
            /\ pc' = [pc EXCEPT ![r] = "done"]
            /\ UNCHANGED handles
       ELSE /\ req' = [req EXCEPT ![r] =
                         [op |-> "register", email |-> data.email[1],
                          password |-> data.password[1], role |-> data.role,
                          name |-> data.name[1]]]
            /\ resp' = [resp EXCEPT ![r] = NoResp]
            /\ pc' = [pc EXCEPT ![r] = "register_insert"]
            /\ get_db(r)
    /\ UNCHANGED <<orphans, writer, users, lastIssued, broadcasts, orders,
                   production, report, tally, now>>

\* Mutant: table users without UNIQUE on email.
UsersIntegrityError_NoUnique(email, role) == role \notin ValidRoles

\* The constraints of table users that an INSERT can violate:
\* email TEXT UNIQUE, role CHECK(role IN ('canteen', 'ngo')).
UsersIntegrityError(email, role) ==
    \/ UserByEmail(email) # {}
    \/ role \notin ValidRoles

NewUser(id, email, password, role, name, token) ==
    [id |-> id, email |-> email, password |-> hash_password(password),
     role |-> role, name |-> name, token |-> token]

\* The try block of register with the token secrets.token_hex(16) drew:
\* INSERT, commit, close, 201; on sqlite3.IntegrityError the except branch
\* returns 400 and neither commits, rolls back nor closes, so the
\* connection stays open inside its transaction, holding the write lock.
RegisterInsert(r, token) ==
    /\ pc[r] = "register_insert"
    /\ CanWrite(r)
    /\ IF UsersIntegrityError(req[r].email, req[r].role)
       THEN /\ conn_leak(r)
            /\ writer' = Orphan
            /\ resp' = [resp EXCEPT ![r] =
                          [status |-> 400, error |-> "Email already exists"]]
            /\ UNCHANGED <<users, lastIssued>>
       ELSE /\ users' = Append(users,
                           NewUser(Len(users) + 1, req[r].email, req[r].password,
                                   req[r].role, req[r].name, token))
            /\ lastIssued' = [lastIssued EXCEPT ![req[r].email] = Val(token)]
            /\ writer' = 0
            /\ conn_close(r)
            /\ resp' = [resp EXCEPT ![r] =
                          [status |-> 201, message |-> "User registered"]]
            /\ UNCHANGED orphans
    /\ pc' = [pc EXCEPT ![r] = "done"]
    /\ req' = [req EXCEPT ![r] = Idle]
    /\ UNCHANGED <<broadcasts, orders, production, report, tally, now>>

\* POST /api/auth/login up to the credentials test: SELECT * FROM users
\* WHERE email = ?; 401, without conn.close(), when there is no such user
\* or the password hash differs.
LoginSelect(r, email, password) ==
    /\ BeginRequest(r)
    /\ LET found == UserByEmail(email) IN
       IF found = {} \/ \E i \in found : users[i].password # hash_password(password)
       THEN /\ req' = [req EXCEPT ![r] = Idle]
            /\ resp' = [resp EXCEPT ![r] =
                          [status |-> 401, error |-> "Invalid credentials"]]
            /\ pc' = [pc EXCEPT ![r] = "done"]
            /\ orphans < MaxOrphans
            /\ orphans' = orphans + 1
            /\ UNCHANGED handles
       ELSE /\ req' = [req EXCEPT ![r] =
                         [op |-> "login", user |-> CHOOSE i \in found : TRUE]]
            /\ resp' = [resp EXCEPT ![r] = NoResp]
            /\ pc' = [pc EXCEPT ![r] = "login_update"]
            /\ get_db(r)
            /\ UNCHANGED orphans
    /\ UNCHANGED <<writer, users, lastIssued, broadcasts, orders, production, report, tally, now>>

\* Mutant: the new token is returned but the UPDATE is not made.
LoginUpdate_NotStored(r, token) ==
    /\ pc[r] = "login_update"
    /\ CanWrite(r)
    /\ lastIssued' = [lastIssued EXCEPT ![users[req[r].user].email] = Val(token)]
    /\ writer' = 0
    /\ conn_close(r)
    /\ resp' = [resp EXCEPT ![r] = [status |-> 200, message |-> "Logged in"]]
    /\ pc' = [pc EXCEPT ![r] = "done"]
    /\ req' = [req EXCEPT ![r] = Idle]
    /\ UNCHANGED <<users, orphans, broadcasts, orders, production, report, tally, now>>

\* The rest of login with the token secrets.token_hex(16) drew:
\* UPDATE users SET token = ? WHERE id = ?, commit, close, 200.
LoginUpdate(r, token) ==
    /\ pc[r] = "login_update"
    /\ CanWrite(r)
    /\ users' = [users EXCEPT ![req[r].user].token = token]
    /\ lastIssued' = [lastIssued EXCEPT ![users[req[r].user].email] = Val(token)]
    /\ writer' = 0
    /\ conn_close(r)
    /\ resp' = [resp EXCEPT ![r] = [status |-> 200, message |-> "Logged in"]]
    /\ pc' = [pc EXCEPT ![r] = "done"]
    /\ req' = [req EXCEPT ![r] = Idle]
    /\ UNCHANGED <<orphans, broadcasts, orders, production, report, tally, now>>

NextAuth ==
    \/ \E r \in Reqs, data \in RegisterBodies : RegisterBegin(r, data)
    \/ \E r \in Reqs, token \in TokenDraws : RegisterInsert(r, token)
    \/ \E r \in Reqs, email \in Emails, password \in Passwords :
          LoginSelect(r, email, password)
    \/ \E r \in Reqs, token \in TokenDraws : LoginUpdate(r, token)
    \/ Finalize

SpecAuth == Init /\ [][NextAuth]_vars

----------------------------------------------------------------------------
(* Orders: create_order *)

\* f"ORD-{datetime.now().strftime('%Y%m%d%H%M%S')}": the clock reading cut
\* to whole seconds.
OrderNumber(t) == <<"ORD-", t \div TicksPerSecond>>

Tick ==
    /\ now < MaxTime
    /\ now' = now + 1
    /\ UNCHANGED <<pc, req, resp, handles, orphans, writer, users, lastIssued,
                   broadcasts, orders, production, report, tally>>

\* POST /api/orders up to the INSERT: the order number is taken from the
\* clock, then the connection is opened.
OrderBegin(r) ==
    /\ BeginRequest(r)
    /\ get_db(r)
    /\ req' = [req EXCEPT ![r] = [op |-> "order", order_number |-> OrderNumber(now)]]
    /\ resp' = [resp EXCEPT ![r] = NoResp]
    /\ pc' = [pc EXCEPT ![r] = "order_insert"]
    /\ UNCHANGED <<orphans, writer, users, lastIssued, broadcasts, orders,
                   production, report, tally, now>>

\* Mutant: table orders without UNIQUE on order_number.
OrdersIntegrityError_NoUnique(order_number) == FALSE

\* order_number TEXT UNIQUE NOT NULL
OrdersIntegrityError(order_number) ==
    \E i \in DOMAIN orders : orders[i].order_number = order_number

\* INSERT INTO orders, commit, close, 201.  create_order has no except
\* clause: sqlite3.IntegrityError leaves the handler as an unhandled
\* exception (500), before commit and close.
OrderInsert(r) ==
    /\ pc[r] = "order_insert"
    /\ CanWrite(r)
    /\ IF OrdersIntegrityError(req[r].order_number)
       THEN /\ conn_leak(r)
            /\ writer' = Orphan
            /\ resp' = [resp EXCEPT ![r] =
                          [status |-> 500, error |-> "IntegrityError"]]
            /\ UNCHANGED orders
       ELSE /\ orders' = Append(orders,
                            [id |-> Len(orders) + 1,
                             order_number |-> req[r].order_number])
            /\ writer' = 0
            /\ conn_close(r)
            /\ resp' = [resp EXCEPT ![r] =
                          [status |-> 201, orderId |-> Len(orders) + 1,
                           order_number |-> req[r].order_number]]
            /\ UNCHANGED orphans
    /\ pc' = [pc EXCEPT ![r] = "done"]
    /\ UNCHANGED <<req, users, lastIssued, broadcasts, production, report, tally, now>>

NextOrders ==
    \/ Tick
    \/ \E r \in Reqs : OrderBegin(r)
    \/ \E r \in Reqs : OrderInsert(r)
    \/ Finalize

SpecOrders == Init /\ [][NextOrders]_vars

----------------------------------------------------------------------------
(* Production and statistics: log_production, get_overall_stats,
   get_wastage_by_item *)

\* Numbers in a result row or response body are fractions <<num, den>>
\* with den > 0; an INTEGER n is <<n, 1>>.
Whole(n) == <<n, 1>>
Num(x) == x[1]

\* SQL division: NULL when the divisor is 0.
Div(n, d) == IF d = 0 THEN NULL ELSE IF d < 0 THEN <<0 - n, 0 - d>> ELSE <<n, d>>

Items == 1..NumItems
Quantities == 0..MaxQty

\* Mutant: a surplus that is never negative.
ProductionRow_Clamped(item_name, quantity_prepared, quantity_consumed) ==
    [item_name |-> item_name,
     quantity_prepared |-> quantity_prepared,
     quantity_consumed |-> quantity_consumed,
     quantity_surplus |-> IF quantity_prepared < quantity_consumed THEN 0
                          ELSE quantity_prepared - quantity_consumed]

\* quantity_surplus = quantity_prepared - quantity_consumed, and the row
\* that log_production inserts.
ProductionRow(item_name, quantity_prepared, quantity_consumed) ==
    [item_name |-> item_name,
     quantity_prepared |-> quantity_prepared,
     quantity_consumed |-> quantity_consumed,
     quantity_surplus |-> quantity_prepared - quantity_consumed]

\* POST /api/production: the row is inserted and committed, the
\* connection closed, 201.
log_production(r, item_name, quantity_prepared, quantity_consumed) ==
    /\ BeginRequest(r)
    /\ CanWrite(r)
    /\ Len(production) < MaxRows
    /\ production' = Append(production,
                            ProductionRow(item_name, quantity_prepared,
                                          quantity_consumed))
    /\ req' = [req EXCEPT ![r] =
                 [op |-> "log", quantity_prepared |-> quantity_prepared,
                  quantity_consumed |-> quantity_consumed]]
    /\ resp' = [resp EXCEPT ![r] = [status |-> 201, id |-> Len(production) + 1]]
    /\ pc' = [pc EXCEPT ![r] = "done"]
    /\ UNCHANGED <<handles, orphans, writer, users, lastIssued, broadcasts,
                   orders, report, tally, now>>

RECURSIVE SumOver(_, _)
\* SUM(col) over the rows: NULL when there are none.
SumOver(rows, col) ==
    IF rows = <<>> THEN 0 ELSE rows[1][col] + SumOver(Tail(rows), col)

Sum(rows, col) == IF rows = <<>> THEN NULL ELSE Whole(SumOver(rows, col))

\* AVG(col): NULL when there are no rows.
Avg(rows, col) == IF rows = <<>> THEN NULL ELSE <<SumOver(rows, col), Len(rows)>>

\* The one result row of the SELECT of get_overall_stats.
OverallRow(rows) ==
    [total_prepared |-> Sum(rows, "quantity_prepared"),
     total_consumed |-> Sum(rows, "quantity_consumed"),
     total_surplus |-> Sum(rows, "quantity_surplus"),
     avg_surplus_per_day |-> Avg(rows, "quantity_surplus"),
     avg_consumption_rate_percent |->
        IF rows = <<>> THEN NULL
        ELSE Div(SumOver(rows, "quantity_consumed") * 100,
                 SumOver(rows, "quantity_prepared"))]

\* Mutant: the result row returned as fetched.
NoneToZero_Kept(stats) == stats

\* for key in stats: if stats[key] is None: stats[key] = 0
NoneToZero(stats) ==
    [key \in DOMAIN stats |-> IF stats[key] = NULL THEN Whole(0) ELSE stats[key]]

\* GET /api/stats/overall
get_overall_stats(r) ==
    /\ BeginRequest(r)
    /\ report' = NoneToZero(OverallRow(production))
    /\ req' = [req EXCEPT ![r] = [op |-> "overall"]]
    /\ resp' = [resp EXCEPT ![r] = [status |-> 200]]
    /\ pc' = [pc EXCEPT ![r] = "done"]
    /\ UNCHANGED <<handles, orphans, writer, users, lastIssued, broadcasts,
                   orders, production, tally, now>>

NextProduction ==
    \/ \E r \in Reqs, item_name \in {1}, p \in Quantities, c \in Quantities :
          log_production(r, item_name, p, c)
    \/ \E r \in Reqs : get_overall_stats(r)

SpecProduction == Init /\ [][NextProduction]_vars

\* ROUND(x, 2) of a REAL x = n / d, as a number of hundredths; NULL stays
\* NULL.
Round2(x) ==
    IF x = NULL THEN NULL
    ELSE LET n == x[1]
             d == x[2]
             a == IF n < 0 THEN 0 - n ELSE n
             h == (2 * a * 100 + d) \div (2 * d)
         IN <<IF n < 0 THEN 0 - h ELSE h, 100>>

RowsOf(rows, item_name) == SelectSeq(rows, LAMBDA x : x.item_name = item_name)

\* One result row of GROUP BY item_name.
GroupRow(rows, item_name) ==
    LET g == RowsOf(rows, item_name) IN
    [dish_name |-> item_name,
     total_prepared |-> Sum(g, "quantity_prepared"),
     total_consumed |-> Sum(g, "quantity_consumed"),
     total_surplus |-> Sum(g, "quantity_surplus"),
     waste_rate_percent |->
        Round2(Div(SumOver(g, "quantity_surplus") * 100,
                   SumOver(g, "quantity_prepared")))]

\* Mutant: ORDER BY total_surplus (ascending).
Before_Ascending(a, b, ties) ==
    \/ Num(a.total_surplus) < Num(b.total_surplus)
    \/ Num(a.total_surplus) = Num(b.total_surplus) /\ ties = "later first"

\* ORDER BY total_surplus DESC: whether row a, already placed, stays ahead
\* of row b.  SQL leaves the order of equal keys open: ties says which way
\* this execution breaks them.
Before(a, b, ties) ==
    \/ Num(a.total_surplus) > Num(b.total_surplus)
    \/ Num(a.total_surplus) = Num(b.total_surplus) /\ ties = "earlier first"

Insert(sorted, row, ties) ==
    LET k == Cardinality({i \in DOMAIN sorted : Before(sorted[i], row, ties)})
    IN SubSeq(sorted, 1, k) \o <<row>> \o SubSeq(sorted, k + 1, Len(sorted))

RECURSIVE OrderBy(_, _, _, _)
\* The groups of dishes 1..n, ordered.
OrderBy(rows, n, ties, present) ==
    IF n = 0 THEN <<>>
    ELSE IF n \in present
         THEN Insert(OrderBy(rows, n - 1, ties, present), GroupRow(rows, n), ties)
         ELSE OrderBy(rows, n - 1, ties, present)

\* LIMIT 10
TopN == 10

Limit(seq) == SubSeq(seq, 1, IF Len(seq) < TopN THEN Len(seq) ELSE TopN)

DishNames(rows) == {rows[i].item_name : i \in DOMAIN rows}

WastageByItem(rows, ties) ==
    Limit(OrderBy(rows, NumItems, ties, DishNames(rows)))

\* GET /api/stats/wastage-by-item
get_wastage_by_item(r, ties) ==
    /\ BeginRequest(r)
    /\ report' = WastageByItem(production, ties)
    /\ req' = [req EXCEPT ![r] = [op |-> "wastage"]]
    /\ resp' = [resp EXCEPT ![r] = [status |-> 200]]
    /\ pc' = [pc EXCEPT ![r] = "done"]
    /\ UNCHANGED <<handles, orphans, writer, users, lastIssued, broadcasts,
                   orders, production, tally, now>>

\* Production histories for the per-dish report: the first n dishes, each
\* logged either twice (surpluses 2 + 0 or 1 + 0, by the dish's parity) or
\* once with nothing prepared (surplus 0, -1 or -2).
DishLog(i, k) ==
    IF k = 1
    THEN IF i % 2 = 0
         THEN <<ProductionRow(i, 3, 1), ProductionRow(i, 1, 1)>>
         ELSE <<ProductionRow(i, 2, 1), ProductionRow(i, 1, 1)>>
    ELSE <<ProductionRow(i, 0, i % 3)>>

RECURSIVE History(_, _)
History(f, n) == IF n = 0 THEN <<>> ELSE History(f, n - 1) \o DishLog(n, f[n])

Histories == {History(f, n) : f \in [Items -> 1..2], n \in 0..NumItems}

InitWastage == InitRequests /\ production \in Histories

NextWastage ==
    \E ties \in {"earlier first", "later first"} : get_wastage_by_item(1, ties)

SpecWastage == InitWastage /\ [][NextWastage]_vars

----------------------------------------------------------------------------
(* Claims about the surplus component *)

DoneClaim(r) == pc[r] = "done" /\ req[r].op = "claim"

\* C1: of two (or more) claim calls that were under way while the same
\* broadcast was active, once all of them have returned exactly one was
\* answered 200, every other one 400 (not available), and the broadcast is
\* claimed.
C1_ExactlyOneClaimWins ==
    \A id \in 1..MaxBroadcasts :
        (/\ tally[id].arrived >= 2
         /\ tally[id].won + tally[id].lost = tally[id].arrived)
        => /\ tally[id].won = 1
           /\ tally[id].lost = tally[id].arrived - 1
           /\ broadcasts[id].status = "claimed"

\* Two calls that both arrived while the broadcast was active, both back:
\* one with 200, one with 400.
C1_Witness ==
    \E r1, r2 \in Reqs :
        /\ r1 # r2
        /\ DoneClaim(r1) /\ DoneClaim(r2)
        /\ req[r1].id = req[r2].id
        /\ req[r1].seen = "active" /\ req[r2].seen = "active"
        /\ resp[r1].status = 200 /\ resp[r2].status = 400
        /\ tally[req[r1].id] = [arrived |-> 2, won |-> 1, lost |-> 1]

\* C2: every broadcast is created active with claimed_by NULL; a claimed
\* row never changes again (no way back to active, claimed at most once);
\* and a claim whose broadcast is missing or already claimed answers 400
\* and leaves the whole table as it was.
C2_ClaimedAtMostOnce ==
    [][/\ \A i \in DOMAIN broadcasts' \ DOMAIN broadcasts :
             /\ broadcasts'[i].status = "active"
             /\ broadcasts'[i].claimed_by = NULL
       /\ \A i \in DOMAIN broadcasts :
             /\ i \in DOMAIN broadcasts'
             /\ broadcasts[i].status = "claimed" => broadcasts'[i] = broadcasts[i]
       /\ \A r \in Reqs :
             (/\ pc[r] = "claim_commit" /\ pc'[r] = "done"
              /\ ~IsActive(req[r].id))
             => /\ resp'[r].status = 400
                /\ broadcasts' = broadcasts]_vars

C2_Witness ==
    \E r \in Reqs :
        /\ DoneClaim(r)
        /\ resp[r].status = 400
        /\ req[r].id \in DOMAIN broadcasts
        /\ broadcasts[req[r].id].status = "claimed"

\* C3: a successful claim leaves the broadcast with claimed_by equal to the
\* id of the caller who made that claim.
C3_ClaimedByIsCaller ==
    \A r \in Reqs :
        (DoneClaim(r) /\ resp[r].status = 200)
        => broadcasts[req[r].id].claimed_by = req[r].claimant

----------------------------------------------------------------------------
(* Claims about authentication *)

LoginReturns(r) == pc[r] = "login_update" /\ pc'[r] = "done"
RegisterReturns(r) == pc[r] = "register_insert" /\ pc'[r] = "done"

StoredTokenIsLastIssued ==
    /\ \A i \in DOMAIN users : lastIssued[users[i].email] = Val(users[i].token)
    /\ \A e \in Emails : lastIssued[e] # NULL => UserByEmail(e) # {}

NoSharedEmail ==
    \A i, j \in DOMAIN users : i # j => users[i].email # users[j].email

\* C5: a register call whose email already belongs to a user answers 400
\* "Email already exists" and leaves table users exactly as it was; no two
\* rows of users ever share an email, however register calls interleave.
C5_DuplicateEmailRejected ==
    [][/\ \A r \in Reqs :
             (RegisterReturns(r) /\ UserByEmail(req[r].email) # {})
             => /\ resp'[r] = [status |-> 400, error |-> "Email already exists"]
                /\ users' = users
       /\ NoSharedEmail']_vars

\* A register call lost to a concurrent one for the same email: it has
\* answered 400 while the user it collided with is stored, and the write
\* lock is still held by the connection it never closed.
C5_Witness ==
    \E r \in Reqs :
        /\ pc[r] = "done"
        /\ resp[r] = [status |-> 400, error |-> "Email already exists"]
        /\ Len(users) >= 1
        /\ writer = Orphan

\* C10: once a handler has returned, on any path, no connection it opened
\* is still open.
C10_HandlesReleased ==
    /\ orphans = 0
    /\ \A r \in Reqs : Free(r) => handles[r] = 0

----------------------------------------------------------------------------
(* Claims about orders and production *)

UniqueOrderNumbers ==
    \A i, j \in DOMAIN orders :
        i # j => orders[i].order_number # orders[j].order_number

\* C8: stored orders have pairwise distinct order numbers; a createOrder
\* whose order number (its creation second) is already stored fails on the
\* insert and adds no row.
C8_OrderNumbersUnique ==
    [][/\ \A r \in Reqs :
             (/\ pc[r] = "order_insert" /\ pc'[r] = "done"
              /\ \E i \in DOMAIN orders :
                    orders[i].order_number = req[r].order_number)
             => /\ resp'[r].status = 500
                /\ orders' = orders
       /\ UniqueOrderNumbers']_vars

\* Two orders taken at different ticks of the same second: the second one
\* has failed and the table holds the first alone under that number.
C8_Witness ==
    \E r \in Reqs :
        /\ pc[r] = "done"
        /\ req[r].op = "order"
        /\ resp[r].status = 500
        /\ Cardinality({i \in DOMAIN orders :
                           orders[i].order_number = req[r].order_number}) = 1

\* C6: every row of daily_production has quantity_surplus =
\* quantity_prepared - quantity_consumed, rows are only ever appended, and
\* the row a log call appends carries the two quantities of that call.
C6_SurplusIsDifference ==
    [][/\ \A i \in DOMAIN production : 
             i \in DOMAIN production' /\ production'[i] = production[i]
       /\ \A i \in DOMAIN production' :
             production'[i].quantity_surplus =
                production'[i].quantity_prepared - production'[i].quantity_consumed
       /\ \A r \in Reqs :
             (pc'[r] = "done" /\ req'[r].op = "log" /\ resp'[r] # resp[r])
             => LET row == production'[Len(production')] IN
                /\ Len(production') = Len(production) + 1
                /\ row.quantity_prepared = req'[r].quantity_prepared
                /\ row.quantity_consumed = req'[r].quantity_consumed]_vars

\* A row with more consumed than prepared, stored with a negative surplus.
C6_Witness ==
    \E i \in DOMAIN production :
        /\ production[i].quantity_consumed > production[i].quantity_prepared
        /\ production[i].quantity_surplus < 0

StatsFields ==
    {"total_prepared", "total_consumed", "total_surplus",
     "avg_surplus_per_day", "avg_consumption_rate_percent"}

\* C7: the body of overallStats has the five fields and none is null; it is
\* all zeros for an empty history; for other histories the three totals
\* are the column sums, with total_surplus = total_prepared -
\* total_consumed, and the consumption rate is 0 when nothing was prepared.
C7_OverallStatsNeverNull ==
    [][\A r \in Reqs :
          (pc'[r] = "done" /\ req'[r].op = "overall" /\ report' # report)
          => /\ DOMAIN report' = StatsFields
             /\ \A key \in StatsFields : report'[key] # NULL
             /\ production = <<>> =>
                   \A key \in StatsFields : report'[key] = Whole(0)
             /\ production # <<>> =>
                   /\ report'.total_prepared =
                         Whole(SumOver(production, "quantity_prepared"))
                   /\ report'.total_consumed =
                         Whole(SumOver(production, "quantity_consumed"))
                   /\ report'.total_surplus =
                         Whole(SumOver(production, "quantity_surplus"))
                   /\ Num(report'.total_surplus) =
                         Num(report'.total_prepared) - Num(report'.total_consumed)
                   /\ SumOver(production, "quantity_prepared") = 0 =>
                         report'.avg_consumption_rate_percent = Whole(0)]_vars

\* overallStats answered on a history that is not empty but whose prepared
\* quantities sum to 0.
C7_Witness ==
    /\ production # <<>>
    /\ SumOver(production, "quantity_prepared") = 0
    /\ report # NULL
    /\ report.total_consumed = Whole(SumOver(production, "quantity_consumed"))
    /\ Num(report.total_consumed) > 0
    /\ report.avg_consumption_rate_percent = Whole(0)

\* C9: the rows of wastageByItem are distinct dishes of the history, all of
\* them when there are at most 10 and 10 of them otherwise; each carries
\* the sum of its dish's surpluses; they come in non-increasing order of
\* total_surplus; and no dish left out has a larger total than one returned.
C9_WastageTopTen ==
    [][\A r \in Reqs :
          (pc'[r] = "done" /\ req'[r].op = "wastage")
          => LET out == report'
                 all == DishNames(production)
                 got == {out[i].dish_name : i \in DOMAIN out}
                 total(d) == SumOver(RowsOf(production, d), "quantity_surplus")
             IN /\ got \subseteq all
                /\ Cardinality(got) = Len(out)
                /\ Len(out) <= 10
                /\ Len(out) = IF Cardinality(all) < 10 THEN Cardinality(all) ELSE 10
                /\ \A i \in DOMAIN out :
                      out[i].total_surplus = Whole(total(out[i].dish_name))
                /\ \A i, j \in DOMAIN out :
                      i < j => Num(out[i].total_surplus) >= Num(out[j].total_surplus)
                /\ \A d \in all \ got : \A i \in DOMAIN out :
                      total(d) <= Num(out[i].total_surplus)]_vars

\* A report cut to 10 rows out of 11 dishes whose totals differ, with a
\* tie among the rows returned.
C9_Witness ==
    /\ report # NULL
    /\ Cardinality(DishNames(production)) > 10
    /\ Len(report) = 10
    /\ Num(report[1].total_surplus) > Num(report[10].total_surplus)
    /\ \E i \in 1..9 : report[i].total_surplus = report[i + 1].total_surplus

====
